---- MODULE Spec2Model ----
(***************************************************************************)
(* Model of pretraining/run_language_modeling.py: the get_dataset helper   *)
(* and the main() driver, one statement group per action.  A run is one    *)
(* or more processes executing main() with the same command line (only     *)
(* --local_rank differs) against one shared output directory.              *)
(*                                                                         *)
(* The collaborators (transformers' tokenizer, model and Trainer; the      *)
(* TextDataset and the collator) are represented by the values main()      *)
(* passes to them and the values it reads back; their calls are taken to   *)
(* return normally.  math.exp is the Python standard library function.     *)
(***************************************************************************)
EXTENDS Integers, FiniteSets, Sequences, TLC

(* ---------------------------------------------------------------- bounds *)

\* Largest number of processes of a distributed run.
MaxProcs == 2

(* ------------------------------------------------------------- constants *)

\* Optional[str] fields hold a path or None.
None == "None"

\* line 159/160: the checkpoint identifier main() loads from.
HardCodedCheckpoint == "allenai/longformer-base-4096"

\* line 164
BlockSize == 4096

\* math.exp(x) overflows a double for every finite x > 709.78...; on the
\* integer losses of the model the largest argument that does not is 709.
ExpMaxArg == 709

DocStart == "<doc-s>"
DocEnd == "</doc-s>"

\* The vocabulary files of the pretrained checkpoint, cut down to three
\* ordinary entries.
BaseVocab == {"<s>", "</s>", "the"}

\* Vocabularies from_pretrained may hand back: the published one, and ones
\* that already hold a sentinel token as an ordinary entry.
PretrainedVocabs == {BaseVocab, BaseVocab \cup {DocStart}, BaseVocab \cup {DocStart, DocEnd}}

\* Rows of the checkpoint's token-embedding matrix.
PretrainedRows == Cardinality(BaseVocab)

\* The file system outside output_dir: the paths --model_name_or_path may name.
DefaultModelPath == "/home/t-avic/PycharmProjects/coref_former/longformer-base-4096/"
ModelPaths == {None, DefaultModelPath, "ckpt_dir", "weights.bin"}
ExistingDirs == {"ckpt_dir"}

OsPathIsdir(path) == path \in ExistingDirs

\* Values of the two data file options.
TrainFiles == {None, "train.txt.src"}
EvalFiles == {None, "dev.txt.src"}

\* Floats: a finite value (an integer here), or +inf.
Fin(n) == [cls |-> "fin", v |-> n]
Inf == [cls |-> "inf", v |-> 0]
Losses == {Fin(0), Fin(ExpMaxArg), Fin(ExpMaxArg + 1), Inf}

\* Results of output_dir states at start-up.
OutputDirs ==
    { [kind |-> "absent", entries |-> {}],
      [kind |-> "file", entries |-> {}],
      [kind |-> "dir", entries |-> {}],
      [kind |-> "dir", entries |-> {"checkpoint-500"}] }

ResultsFileName == "eval_results_lm.txt"
TokenizerFileName == "vocab.json"

(* ------------------------------------------------------------- variables *)

VARIABLES
    procs,          \* the processes of the run (their global ranks)
    model_args,     \* ModelArguments (line 48), the same for every process
    data_args,      \* DataTrainingArguments (line 75), per process
    training_args,  \* the fields of TrainingArguments main() reads, per process
    world_rank,     \* torch.distributed rank of each process
    hub_vocab,      \* vocabulary of the checkpoint named HardCodedCheckpoint
    output_dir,     \* the directory training_args.output_dir names
    saved_tokenizer,\* tokenizer files in output_dir: who wrote them, and what
    results_file,   \* eval_results_lm.txt: who wrote it, and its lines
    pc,             \* position of each process in main()
    err,            \* exception that ended the process, or None
    model,          \* local variable model
    tokenizer,      \* local variable tokenizer
    train_dataset,  \* local variable train_dataset
    data_collator,  \* local variable data_collator
    trainer,        \* local variable trainer
    model_path,     \* local variable model_path
    eval_output,    \* local variable eval_output
    perplexity,     \* local variable perplexity
    results,        \* value main() returned
    calls,          \* per process: the collaborator calls made so far, in order
    gd_in,          \* get_dataset called on its own: the arguments
    gd_out          \* get_dataset called on its own: the value returned

cfgvars == <<procs, model_args, data_args, training_args, world_rank, hub_vocab>>
fsvars == <<output_dir, saved_tokenizer, results_file>>
localvars == <<model, tokenizer, train_dataset, data_collator, trainer, model_path,
               eval_output, perplexity, results>>
gdvars == <<gd_in, gd_out>>
vars == <<cfgvars, fsvars, pc, err, localvars, calls, gdvars>>

(* ------------------------------------------------------- pure operations *)

NoTokenizer == [loaded |-> FALSE, source |-> None, vocab |-> {}, added |-> {}, special |-> {}]
NoModel == [loaded |-> FALSE, source |-> None, rows |-> 0]
NoDataset == [built |-> FALSE, tokens |-> {}, split |-> None, file_path |-> None,
              block_size |-> 0, local_rank |-> 0]
NoCollator == [built |-> FALSE, tokens |-> {}, mlm |-> FALSE, globalize_special_tokens |-> FALSE]
NoTrainer == [built |-> FALSE, model_rows |-> 0, train_dataset |-> NoDataset,
              eval_dataset |-> NoDataset, prediction_loss_only |-> FALSE]
NoFloat == [cls |-> "unset", v |-> 0]
NoSaved == [writers |-> {}, tokens |-> {}, special |-> {}]
NoResultsFile == [writers |-> {}, lines |-> <<>>]

\* Every token the tokenizer has an id for.
Tokens(tok) == tok.vocab \cup tok.added

\* len(tokenizer)
TokLen(tok) == Cardinality(tok.vocab) + Cardinality(tok.added)

\* tokenizer.add_tokens([t], special_tokens=True): a token that already has
\* an id gets no second one; the token is marked special either way.
AddTokens(tok, t) ==
    [tok EXCEPT !.added = IF t \in Tokens(tok) THEN @ ELSE @ \cup {t},
                !.special = @ \cup {t}]

\* model.resize_token_embeddings(n)
ResizeTokenEmbeddings(m, n) == [m EXCEPT !.rows = n]

\* get_dataset reading train_data_file whatever evaluate is
get_dataset_train_file(args, tok, evaluate, local_rank) ==
    [built |-> TRUE,
     tokens |-> Tokens(tok),
     split |-> IF evaluate THEN "dev" ELSE "train",
     file_path |-> args.train_data_file,
     block_size |-> args.block_size,
     local_rank |-> local_rank]

\* get_dataset (lines 115-119): the TextDataset it constructs, as the
\* arguments handed to the constructor.
get_dataset(args, tok, evaluate, local_rank) ==
    LET file_path == IF evaluate THEN args.eval_data_file ELSE args.train_data_file
    IN  [built |-> TRUE,
         tokens |-> Tokens(tok),
         split |-> IF evaluate THEN "dev" ELSE "train",
         file_path |-> file_path,
         block_size |-> args.block_size,
         local_rank |-> local_rank]

\* an exponential that saturates to inf instead of raising
MathExpRaises_never(x) == FALSE

\* math.exp: OverflowError on a finite argument whose exponential is not a
\* double, inf on inf, e^x otherwise (kept symbolic as exp(v)).
MathExpRaises(x) == x.cls = "fin" /\ x.v > ExpMaxArg
MathExp(x) == IF x.cls = "inf" \/ x.v > ExpMaxArg THEN [cls |-> "inf", exp_of |-> 0]
              ELSE [cls |-> "fin", exp_of |-> x.v]
NoPerplexity == [cls |-> "unset", exp_of |-> 0]

\* the first process of each machine, not of the run
IsWorldMaster_local(p) == training_args[p].local_rank \in {-1, 0}

\* trainer.is_world_master()
IsWorldMaster(p) == training_args[p].local_rank = -1 \/ world_rank[p] = 0

\* os.path.exists(output_dir) and os.listdir(output_dir)
OsPathExists(d) == d.kind # "absent"
OsListdirRaises(d) == d.kind = "file"
OsListdir(d) == d.entries

(* ------------------------------------------------------------------ Init *)

NoResults == [returned |-> FALSE, perplexity |-> NoPerplexity]
NoCall == [called |-> FALSE,
           args |-> [train_data_file |-> None, eval_data_file |-> None, block_size |-> 0],
           tokenizer |-> NoTokenizer, evaluate |-> FALSE, local_rank |-> 0]

\* DataTrainingArguments as parsed: block_size keeps its default, -1.
DataArgs(train, eval) ==
    [train_data_file |-> train, eval_data_file |-> eval, block_size |-> -1,
     mlm |-> TRUE, globalize_special_tokens |-> FALSE]

TrainingArgs(do_train, do_eval, overwrite, local_rank) ==
    [do_train |-> do_train, do_eval |-> do_eval,
     overwrite_output_dir |-> overwrite, local_rank |-> local_rank]

\* Every process is at the top of main(), nothing loaded, nothing written.
InitLocals ==
    /\ pc = [p \in procs |-> "check_eval_file"]
    /\ err = [p \in procs |-> None]
    /\ model = [p \in procs |-> NoModel]
    /\ tokenizer = [p \in procs |-> NoTokenizer]
    /\ train_dataset = [p \in procs |-> NoDataset]
    /\ data_collator = [p \in procs |-> NoCollator]
    /\ trainer = [p \in procs |-> NoTrainer]
    /\ model_path = [p \in procs |-> None]
    /\ eval_output = [p \in procs |-> NoFloat]
    /\ perplexity = [p \in procs |-> NoPerplexity]
    /\ results = [p \in procs |-> NoResults]
    /\ calls = [p \in procs |-> <<>>]
    /\ saved_tokenizer = NoSaved
    /\ results_file = NoResultsFile

\* The command line: the same options for every process of the run, but
\* for --local_rank, which the launcher sets.
InitConfig(paths, trains, vocabs, local_rank) ==
    /\ model_args \in [model_name_or_path : paths]
    /\ \E train \in trains, eval \in EvalFiles :
           data_args = [p \in procs |-> DataArgs(train, eval)]
    /\ \E do_train \in BOOLEAN, do_eval \in BOOLEAN, overwrite \in BOOLEAN :
           training_args = [p \in procs |->
               TrainingArgs(do_train, do_eval, overwrite, local_rank[p])]
    /\ hub_vocab \in vocabs
    /\ output_dir \in OutputDirs

\* A run of one process, not distributed (local_rank = -1).
Init ==
    /\ procs = {0}
    /\ world_rank = [p \in procs |-> 0]
    /\ InitConfig(ModelPaths, TrainFiles, PretrainedVocabs, [p \in procs |-> -1])
    /\ InitLocals
    /\ gd_in = NoCall
    /\ gd_out = NoDataset

\* A distributed run of n processes, per_node of them on each machine:
\* process p has global rank p and local rank p % per_node.  The machines
\* share output_dir.
InitDist ==
    /\ \E n \in 2..MaxProcs :
           /\ procs = 0..(n - 1)
           /\ world_rank = [p \in procs |-> p]
           /\ \E per_node \in {1, n} :
                  InitConfig({DefaultModelPath}, {"train.txt.src"},
                             {BaseVocab},
                             [p \in procs |-> p % per_node])
    /\ InitLocals
    /\ gd_in = NoCall
    /\ gd_out = NoDataset

(* ------------------------------------------------------- main(), by step *)

Goto(p, label) == pc' = [pc EXCEPT ![p] = label]
Raise(p, e) == /\ pc' = [pc EXCEPT ![p] = "failed"]
               /\ err' = [err EXCEPT ![p] = e]
Called(p, name) == calls' = [calls EXCEPT ![p] = Append(@, name)]

\* line 126, with the evaluation file mistaken for the training file
EvalFileMissing_train_file(p) ==
    data_args[p].train_data_file = None /\ training_args[p].do_eval

\* line 126
EvalFileMissing(p) ==
    data_args[p].eval_data_file = None /\ training_args[p].do_eval

\* lines 126-130
CheckEvalFile(p) ==
    /\ pc[p] = "check_eval_file"
    /\ IF EvalFileMissing(p)
       THEN Raise(p, "ValueError: eval_data_file")
       ELSE Goto(p, "check_output_dir") /\ UNCHANGED err
    /\ UNCHANGED <<cfgvars, fsvars, localvars, calls, gdvars>>

\* lines 132-137, without the look at --overwrite_output_dir
OutputDirCollision_no_overwrite(p) ==
    /\ OsPathExists(output_dir)
    /\ OsListdir(output_dir) # {}
    /\ training_args[p].do_train

\* lines 132-137
OutputDirCollision(p) ==
    /\ OsPathExists(output_dir)
    /\ OsListdir(output_dir) # {}
    /\ training_args[p].do_train
    /\ ~training_args[p].overwrite_output_dir

\* lines 132-140; os.listdir raises NotADirectoryError on a plain file.
CheckOutputDir(p) ==
    /\ pc[p] = "check_output_dir"
    /\ IF OsPathExists(output_dir) /\ OsListdirRaises(output_dir)
       THEN Raise(p, "NotADirectoryError")
       ELSE IF OutputDirCollision(p)
       THEN Raise(p, "ValueError: output_dir")
       ELSE Goto(p, "setup") /\ UNCHANGED err
    /\ UNCHANGED <<cfgvars, fsvars, localvars, calls, gdvars>>

\* lines 142-157: logging.basicConfig, the two log records, set_seed
SetupLoggingAndSeed(p) ==
    /\ pc[p] = "setup"
    /\ Goto(p, "load_model")
    /\ Called(p, "set_seed")
    /\ UNCHANGED <<cfgvars, fsvars, err, localvars, gdvars>>

\* line 159
LoadModel(p) ==
    /\ pc[p] = "load_model"
    /\ model' = [model EXCEPT ![p] =
           [loaded |-> TRUE, source |-> HardCodedCheckpoint, rows |-> PretrainedRows]]
    /\ Called(p, "model.from_pretrained")
    /\ Goto(p, "load_tokenizer")
    /\ UNCHANGED <<cfgvars, fsvars, err, tokenizer, train_dataset, data_collator, trainer,
                   model_path, eval_output, perplexity, results, gdvars>>

\* line 160
LoadTokenizer(p) ==
    /\ pc[p] = "load_tokenizer"
    /\ tokenizer' = [tokenizer EXCEPT ![p] =
           [loaded |-> TRUE, source |-> HardCodedCheckpoint, vocab |-> hub_vocab,
            added |-> {}, special |-> {}]]
    /\ Called(p, "tokenizer.from_pretrained")
    /\ Goto(p, "add_doc_start")
    /\ UNCHANGED <<cfgvars, fsvars, err, model, train_dataset, data_collator, trainer,
                   model_path, eval_output, perplexity, results, gdvars>>

\* line 161
AddDocStart(p) ==
    /\ pc[p] = "add_doc_start"
    /\ tokenizer' = [tokenizer EXCEPT ![p] = AddTokens(@, DocStart)]
    /\ Called(p, "add_tokens")
    /\ Goto(p, "add_doc_end")
    /\ UNCHANGED <<cfgvars, fsvars, err, model, train_dataset, data_collator, trainer,
                   model_path, eval_output, perplexity, results, gdvars>>

\* line 162 left out
AddDocEnd_left_out(p) ==
    /\ pc[p] = "add_doc_end"
    /\ Goto(p, "set_block_size")
    /\ UNCHANGED <<cfgvars, fsvars, err, localvars, calls, gdvars>>

\* line 162
AddDocEnd(p) ==
    /\ pc[p] = "add_doc_end"
    /\ tokenizer' = [tokenizer EXCEPT ![p] = AddTokens(@, DocEnd)]
    /\ Called(p, "add_tokens")
    /\ Goto(p, "set_block_size")
    /\ UNCHANGED <<cfgvars, fsvars, err, model, train_dataset, data_collator, trainer,
                   model_path, eval_output, perplexity, results, gdvars>>

\* line 164
SetBlockSize(p) ==
    /\ pc[p] = "set_block_size"
    /\ data_args' = [data_args EXCEPT ![p].block_size = BlockSize]
    /\ Goto(p, "build_dataset")
    /\ UNCHANGED <<procs, model_args, training_args, world_rank, hub_vocab, fsvars, err,
                   localvars, calls, gdvars>>

\* line 166
BuildTrainDataset(p) ==
    /\ pc[p] = "build_dataset"
    /\ train_dataset' = [train_dataset EXCEPT ![p] =
           get_dataset(data_args[p], tokenizer[p], FALSE, training_args[p].local_rank)]
    /\ Called(p, "TextDataset")
    /\ Goto(p, "resize")
    /\ UNCHANGED <<cfgvars, fsvars, err, model, tokenizer, data_collator, trainer,
                   model_path, eval_output, perplexity, results, gdvars>>

\* line 167, sized by tokenizer.vocab_size, which leaves the added tokens out
NewEmbeddingRows_vocab_size(tok) == Cardinality(tok.vocab)

\* line 167: len(tokenizer)
NewEmbeddingRows(tok) == TokLen(tok)

\* line 167
ResizeEmbeddings(p) ==
    /\ pc[p] = "resize"
    /\ model' = [model EXCEPT ![p] = ResizeTokenEmbeddings(@, NewEmbeddingRows(tokenizer[p]))]
    /\ Called(p, "resize_token_embeddings")
    /\ Goto(p, "build_collator")
    /\ UNCHANGED <<cfgvars, fsvars, err, tokenizer, train_dataset, data_collator, trainer,
                   model_path, eval_output, perplexity, results, gdvars>>

\* lines 168-170
BuildCollator(p) ==
    /\ pc[p] = "build_collator"
    /\ data_collator' = [data_collator EXCEPT ![p] =
           [built |-> TRUE, tokens |-> Tokens(tokenizer[p]), mlm |-> data_args[p].mlm,
            globalize_special_tokens |-> data_args[p].globalize_special_tokens]]
    /\ Called(p, "DataCollatorForLanguageModeling")
    /\ Goto(p, "build_trainer")
    /\ UNCHANGED <<cfgvars, fsvars, err, model, tokenizer, train_dataset, trainer,
                   model_path, eval_output, perplexity, results, gdvars>>

\* lines 172-179: no eval_dataset is passed (line 177 is a comment)
BuildTrainer(p) ==
    /\ pc[p] = "build_trainer"
    /\ trainer' = [trainer EXCEPT ![p] =
           [built |-> TRUE, model_rows |-> model[p].rows,
            train_dataset |-> train_dataset[p], eval_dataset |-> NoDataset,
            prediction_loss_only |-> TRUE]]
    /\ Called(p, "Trainer")
    /\ Goto(p, "train")
    /\ UNCHANGED <<cfgvars, fsvars, err, model, tokenizer, train_dataset, data_collator,
                   model_path, eval_output, perplexity, results, gdvars>>

\* lines 181-185, without the os.path.isdir test
ModelPath_no_isdir(margs) == margs.model_name_or_path

\* lines 181-185
ModelPath(margs) ==
    IF margs.model_name_or_path # None /\ OsPathIsdir(margs.model_name_or_path)
    THEN margs.model_name_or_path
    ELSE None

\* lines 181-186, run only under --do_train
Train_if_do_train(p) ==
    /\ pc[p] = "train"
    /\ model_path' = [model_path EXCEPT ![p] = ModelPath(model_args)]
    /\ IF training_args[p].do_train
       THEN /\ Called(p, "train")
            /\ output_dir' = [output_dir EXCEPT !.kind = "dir"]
       ELSE UNCHANGED <<calls, output_dir>>
    /\ Goto(p, "save_tokenizer")
    /\ UNCHANGED <<cfgvars, saved_tokenizer, results_file, err, model, tokenizer,
                   train_dataset, data_collator, trainer, eval_output, perplexity,
                   results, gdvars>>

\* lines 181-186.  Training leaves output_dir in place as a directory (the
\* Trainer creates it for its checkpoints).
Train(p) ==
    /\ pc[p] = "train"
    /\ model_path' = [model_path EXCEPT ![p] = ModelPath(model_args)]
    /\ Called(p, "train")
    /\ output_dir' = [output_dir EXCEPT !.kind = "dir"]
    /\ Goto(p, "save_tokenizer")
    /\ UNCHANGED <<cfgvars, saved_tokenizer, results_file, err, model, tokenizer,
                   train_dataset, data_collator, trainer, eval_output, perplexity,
                   results, gdvars>>

\* lines 187-188
SaveTokenizer(p) ==
    /\ pc[p] = "save_tokenizer"
    /\ IF IsWorldMaster(p)
       THEN /\ saved_tokenizer' = [writers |-> saved_tokenizer.writers \cup {p},
                                   tokens |-> Tokens(tokenizer[p]),
                                   special |-> tokenizer[p].special]
            /\ output_dir' = [output_dir EXCEPT !.entries = @ \cup {TokenizerFileName}]
            /\ Called(p, "save_pretrained")
       ELSE UNCHANGED <<saved_tokenizer, output_dir, calls>>
    /\ Goto(p, "evaluate")
    /\ UNCHANGED <<cfgvars, results_file, err, localvars, gdvars>>

\* lines 190-193: the loss is whatever the Trainer measured
Evaluate(p) ==
    /\ pc[p] = "evaluate"
    /\ \E loss \in Losses : eval_output' = [eval_output EXCEPT ![p] = loss]
    /\ Called(p, "evaluate")
    /\ Goto(p, "perplexity")
    /\ UNCHANGED <<cfgvars, fsvars, err, model, tokenizer, train_dataset, data_collator,
                   trainer, model_path, perplexity, results, gdvars>>

\* lines 195-196
Perplexity(p) ==
    /\ pc[p] = "perplexity"
    /\ IF MathExpRaises(eval_output[p])
       THEN Raise(p, "OverflowError") /\ UNCHANGED perplexity
       ELSE /\ perplexity' = [perplexity EXCEPT ![p] = MathExp(eval_output[p])]
            /\ Goto(p, "write_results")
            /\ UNCHANGED err
    /\ UNCHANGED <<cfgvars, fsvars, model, tokenizer, train_dataset, data_collator,
                   trainer, model_path, eval_output, results, calls, gdvars>>

\* lines 198-203: open(..., "w") truncates, then one line per key
WriteResults(p) ==
    /\ pc[p] = "write_results"
    /\ results_file' = [writers |-> results_file.writers \cup {p},
                        lines |-> <<[key |-> "perplexity", value |-> perplexity[p]]>>]
    /\ output_dir' = [output_dir EXCEPT !.entries = @ \cup {ResultsFileName}]
    /\ Goto(p, "return")
    /\ UNCHANGED <<cfgvars, saved_tokenizer, err, localvars, calls, gdvars>>

\* lines 205-207
Return(p) ==
    /\ pc[p] = "return"
    /\ results' = [results EXCEPT ![p] = [returned |-> TRUE, perplexity |-> perplexity[p]]]
    /\ Goto(p, "done")
    /\ UNCHANGED <<cfgvars, fsvars, err, model, tokenizer, train_dataset, data_collator,
                   trainer, model_path, eval_output, perplexity, calls, gdvars>>

Next ==
    \E p \in procs :
        \/ CheckEvalFile(p)
        \/ CheckOutputDir(p)
        \/ SetupLoggingAndSeed(p)
        \/ LoadModel(p)
        \/ LoadTokenizer(p)
        \/ AddDocStart(p)
        \/ AddDocEnd(p)
        \/ SetBlockSize(p)
        \/ BuildTrainDataset(p)
        \/ ResizeEmbeddings(p)
        \/ BuildCollator(p)
        \/ BuildTrainer(p)
        \/ Train(p)
        \/ SaveTokenizer(p)
        \/ Evaluate(p)
        \/ Perplexity(p)
        \/ WriteResults(p)
        \/ Return(p)

\* main() run by one process
Spec == Init /\ [][Next]_vars

\* main() run by the processes of a distributed launch, interleaved freely
SpecDist == InitDist /\ [][Next]_vars

(* ------------------------------------------------ get_dataset on its own *)

GDFiles == {None, "train.txt.src", "dev.txt.src"}
GDBlockSizes == {-1, 512, BlockSize}
GDRanks == {-1, 0, 1}
GDTokenizers ==
    { [loaded |-> TRUE, source |-> HardCodedCheckpoint, vocab |-> BaseVocab,
       added |-> a, special |-> a] : a \in {{}, {DocStart, DocEnd}} }

InitGD ==
    /\ procs = {}
    /\ world_rank = [p \in procs |-> 0]
    /\ model_args = [model_name_or_path |-> None]
    /\ data_args = [p \in procs |-> DataArgs(None, None)]
    /\ training_args = [p \in procs |-> TrainingArgs(FALSE, FALSE, FALSE, -1)]
    /\ hub_vocab = BaseVocab
    /\ output_dir = [kind |-> "absent", entries |-> {}]
    /\ InitLocals
    /\ gd_out = NoDataset
    /\ gd_in \in [called : {FALSE},
                  args : [train_data_file : GDFiles, eval_data_file : GDFiles,
                          block_size : GDBlockSizes],
                  tokenizer : GDTokenizers,
                  evaluate : BOOLEAN,
                  local_rank : GDRanks]

CallGetDataset ==
    /\ ~gd_in.called
    /\ gd_out' = get_dataset(gd_in.args, gd_in.tokenizer, gd_in.evaluate, gd_in.local_rank)
    /\ gd_in' = [gd_in EXCEPT !.called = TRUE]
    /\ UNCHANGED <<cfgvars, fsvars, pc, err, localvars, calls>>

NextGD == CallGetDataset

SpecGD == InitGD /\ [][NextGD]_vars

(* ------------------------------------------------------------ properties *)

Has(seq, name) == \E i \in DOMAIN seq : seq[i] = name
Count(seq, name) == Cardinality({i \in DOMAIN seq : seq[i] = name})
Before(seq, a, b) ==
    \A j \in DOMAIN seq : seq[j] = b => \E i \in 1..(j - 1) : seq[i] = a

Sentinels == {DocStart, DocEnd}
LoadCalls(p) == Count(calls[p], "model.from_pretrained")
                + Count(calls[p], "tokenizer.from_pretrained")
StartupErrors == {"ValueError: eval_data_file", "ValueError: output_dir", "NotADirectoryError"}
InStartup(p) == pc[p] \in {"check_eval_file", "check_output_dir"}
FailedAtStartup(p) == pc[p] = "failed" /\ err[p] \in StartupErrors
NothingLoadedOrBuilt(p) ==
    /\ LoadCalls(p) = 0
    /\ ~model[p].loaded /\ ~tokenizer[p].loaded
    /\ ~train_dataset[p].built /\ ~trainer[p].built
    /\ p \notin results_file.writers /\ p \notin saved_tokenizer.writers
\* output_dir holds something main() did not write
HoldsEarlierOutput ==
    output_dir.kind = "dir" /\ output_dir.entries \ {ResultsFileName, TokenizerFileName} # {}

\* C1: with do_eval set and no eval_data_file, main() never gets past its
\* first check: it ends in the eval_data_file ValueError with no model or
\* tokenizer load made, no dataset, no trainer and no output file.
C1_EvalFileErrorBeforeLoad ==
    \A p \in procs :
        (training_args[p].do_eval /\ data_args[p].eval_data_file = None) =>
            /\ pc[p] \in {"check_eval_file", "failed"}
            /\ pc[p] = "failed" => err[p] = "ValueError: eval_data_file"
            /\ NothingLoadedOrBuilt(p)
            /\ results_file = NoResultsFile /\ saved_tokenizer = NoSaved

C1_Witness ==
    \E p \in procs :
        /\ training_args[p].do_eval /\ data_args[p].eval_data_file = None
        /\ pc[p] = "failed" /\ err[p] = "ValueError: eval_data_file"
        /\ LoadCalls(p) = 0

\* C2 as stated: with output_dir non-empty and do_train set, main() fails at
\* start-up, nothing loaded, when overwrite_output_dir is false, and gets
\* past start-up validation when it is true; the output_dir error is raised
\* only when all four conditions hold.
C2_AsStated ==
    \A p \in procs :
        /\ (HoldsEarlierOutput /\ training_args[p].do_train) =>
              IF training_args[p].overwrite_output_dir
              THEN ~FailedAtStartup(p)
              ELSE (InStartup(p) \/ FailedAtStartup(p)) /\ NothingLoadedOrBuilt(p)
        /\ err[p] = "ValueError: output_dir" =>
              /\ HoldsEarlierOutput
              /\ training_args[p].do_train
              /\ ~training_args[p].overwrite_output_dir

\* C2, amended: as C2, but overwrite_output_dir = true gets main() past
\* start-up validation only when the eval_data_file check passes too.
C2_OutputDirCheck ==
    \A p \in procs :
        /\ (HoldsEarlierOutput /\ training_args[p].do_train) =>
              IF training_args[p].overwrite_output_dir
              THEN ~EvalFileMissing(p) => ~FailedAtStartup(p)
              ELSE (InStartup(p) \/ FailedAtStartup(p)) /\ NothingLoadedOrBuilt(p)
        /\ err[p] = "ValueError: output_dir" =>
              /\ HoldsEarlierOutput
              /\ training_args[p].do_train
              /\ ~training_args[p].overwrite_output_dir

C2_Witness ==
    \E p \in procs :
        /\ HoldsEarlierOutput /\ training_args[p].do_train
        /\ training_args[p].overwrite_output_dir
        /\ model[p].loaded

\* C3: whenever the training dataset has been built or the embeddings have
\* been resized, both sentinel tokens are in the tokenizer, the dataset was
\* built from a vocabulary holding both, and both add_tokens calls came
\* before the dataset's construction and before the resize.
C3_SentinelsBeforeDatasetAndResize ==
    \A p \in procs :
        /\ train_dataset[p].built => Sentinels \subseteq train_dataset[p].tokens
        /\ (train_dataset[p].built \/ Has(calls[p], "resize_token_embeddings")) =>
              /\ Sentinels \subseteq Tokens(tokenizer[p])
              /\ Count(calls[p], "add_tokens") = 2
        /\ Before(calls[p], "add_tokens", "TextDataset")
        /\ Before(calls[p], "add_tokens", "resize_token_embeddings")

C3_Witness ==
    \E p \in procs :
        /\ hub_vocab = BaseVocab
        /\ train_dataset[p].built
        /\ Has(calls[p], "resize_token_embeddings")

\* C4: from the resize on, the model has as many embedding rows as the
\* tokenizer has tokens, also in the model the trainer holds and when
\* training starts; and when the loaded tokenizer had neither sentinel token,
\* its size is then the loaded size plus 2 and both tokens are special.
C4_VocabGrowsByTwoAndRowsMatch ==
    \A p \in procs :
        Has(calls[p], "resize_token_embeddings") =>
            /\ model[p].rows = TokLen(tokenizer[p])
            /\ trainer[p].built => trainer[p].model_rows = TokLen(tokenizer[p])
            /\ hub_vocab \cap Sentinels = {} =>
                  /\ TokLen(tokenizer[p]) = Cardinality(hub_vocab) + 2
                  /\ Sentinels \subseteq tokenizer[p].special

C4_Witness ==
    \E p \in procs :
        /\ hub_vocab \cap Sentinels = {}
        /\ Has(calls[p], "train")
        /\ model[p].rows = PretrainedRows + 2

\* C5: get_dataset builds the dataset from train_data_file with split
\* "train" when evaluate is false and from eval_data_file with split "dev"
\* when it is true, whatever the other file option holds, and hands on
\* block_size and local_rank as given.
C5_GetDatasetSelectsFile ==
    gd_in.called =>
        /\ gd_out.built
        /\ ~gd_in.evaluate =>
              gd_out.file_path = gd_in.args.train_data_file /\ gd_out.split = "train"
        /\ gd_in.evaluate =>
              gd_out.file_path = gd_in.args.eval_data_file /\ gd_out.split = "dev"
        /\ gd_out.block_size = gd_in.args.block_size
        /\ gd_out.local_rank = gd_in.local_rank

C5_Witness ==
    /\ gd_in.called /\ gd_in.evaluate
    /\ gd_in.args.train_data_file = None
    /\ gd_out.file_path = "dev.txt.src"

\* The one process of the run that is its primary: global rank 0.
Primary(p) == world_rank[p] = 0

\* C6: in a distributed run the tokenizer files in output_dir are written by
\* the primary process alone, after its trainer.train call has returned, and
\* hold both sentinel tokens; no other process calls save_pretrained.
C6_TokenizerSavedByPrimaryAfterTraining ==
    /\ \A p \in saved_tokenizer.writers :
           /\ Primary(p)
           /\ Has(calls[p], "train")
           /\ Before(calls[p], "train", "save_pretrained")
    /\ saved_tokenizer.writers # {} =>
           /\ Sentinels \subseteq saved_tokenizer.tokens
           /\ Sentinels \subseteq saved_tokenizer.special
    /\ TokenizerFileName \in output_dir.entries => saved_tokenizer.writers # {}
    /\ \A p \in procs :
           /\ ~Primary(p) => ~Has(calls[p], "save_pretrained")
           /\ Has(calls[p], "save_pretrained") <=> p \in saved_tokenizer.writers

C6_Witness ==
    /\ Cardinality(procs) > 1
    /\ saved_tokenizer.writers = {0}
    /\ \E p \in procs : ~Primary(p) /\ pc[p] = "done"

\* C7: in a distributed run eval_results_lm.txt is written by the primary
\* process alone: never by a process that is not the primary, never by two.
C7_ResultsWrittenByPrimaryAlone ==
    /\ \A p \in results_file.writers : Primary(p)
    /\ Cardinality(results_file.writers) <= 1

\* A loss too large for its exponential to be a double, or infinite.
TooLarge(x) == x.cls = "inf" \/ (x.cls = "fin" /\ x.v > ExpMaxArg)
InfPerplexity == [cls |-> "inf", exp_of |-> 0]

\* C8 as stated: after evaluate() has returned a loss that large, the
\* perplexity step raises nothing and yields inf, which is what the results
\* file then holds and what main() returns.
C8_AsStated ==
    \A p \in procs :
        (Has(calls[p], "evaluate") /\ TooLarge(eval_output[p])) =>
            /\ err[p] = None
            /\ pc[p] \in {"write_results", "return", "done"} => perplexity[p] = InfPerplexity
            /\ pc[p] \in {"return", "done"} =>
                  results_file.lines = <<[key |-> "perplexity", value |-> InfPerplexity]>>
            /\ pc[p] = "done" => results[p] = [returned |-> TRUE, perplexity |-> InfPerplexity]

\* C8, amended: an infinite loss gives an infinite perplexity, written and
\* returned like any other value; a finite loss whose exponential is not a
\* double ends main() in OverflowError at the perplexity step, with no
\* results file written by it and nothing returned.
C8_InfPropagatesOverflowRaises ==
    \A p \in procs :
        Has(calls[p], "evaluate") =>
            /\ eval_output[p] = Inf =>
                  /\ err[p] = None
                  /\ pc[p] \in {"write_results", "return", "done"} =>
                        perplexity[p] = InfPerplexity
                  /\ pc[p] \in {"return", "done"} =>
                        results_file.lines = <<[key |-> "perplexity", value |-> InfPerplexity]>>
                  /\ pc[p] = "done" =>
                        results[p] = [returned |-> TRUE, perplexity |-> InfPerplexity]
            /\ (eval_output[p].cls = "fin" /\ eval_output[p].v > ExpMaxArg) =>
                  /\ pc[p] \in {"perplexity", "failed"}
                  /\ pc[p] = "failed" => err[p] = "OverflowError"
                  /\ perplexity[p] = NoPerplexity
                  /\ p \notin results_file.writers
                  /\ ~results[p].returned
            /\ (eval_output[p].cls = "fin" /\ eval_output[p].v <= ExpMaxArg) =>
                  /\ err[p] = None
                  /\ pc[p] \in {"write_results", "return", "done"} =>
                        perplexity[p] = [cls |-> "fin", exp_of |-> eval_output[p].v]

C8_Witness ==
    \E p \in procs :
        /\ eval_output[p] = Inf
        /\ pc[p] = "done"
        /\ results[p].perplexity = InfPerplexity
        /\ results_file.lines = <<[key |-> "perplexity", value |-> InfPerplexity]>>

EndedPastStartup(p) == pc[p] = "done" \/ (pc[p] = "failed" /\ err[p] \notin StartupErrors)

====
